---- MODULE Spec2Model ----
(***************************************************************************)
(* Model of gitx: the worktree lifecycle workflows of cli/gitx (clone,      *)
(* workspace add / go / list) and of the legacy script src/gitx.py          *)
(* (wt clone / add / code), run against a model of the filesystem and of    *)
(* the git engine they drive through subprocess calls.                      *)
(*                                                                          *)
(* A Python str is a sequence of one-character strings; a pathlib.Path is   *)
(* the sequence of its parts (all paths that reach the filesystem are       *)
(* below the root directory, so the leading "/" is left implicit).          *)
(*                                                                          *)
(* cfg is the object the workflows read: cfg.workspaces.base_dir and        *)
(* cfg.workspaces.provider (clone.py, paths.py) and cfg.globals.editor      *)
(* (commands.py).  Each command is one process; commands run one after      *)
(* another, and a git subprocess is one step of the command that runs it.   *)
(*                                                                          *)
(* Spec runs the workflows; SpecConfig, SpecParse and SpecList run the      *)
(* configuration commands, the parsing functions and workspace list on      *)
(* their own inputs; SpecProcess runs the configuration calls one after     *)
(* another inside one process, where DEFAULT_CONFIG lives on between them;  *)
(* SpecRace runs two save_config_value invocations at once.                 *)
(***************************************************************************)
EXTENDS Integers, Sequences, FiniteSets, TLC

\* ---------------------------------------------------------------- state

VARIABLES
    fs,         \* the directories that exist
    repos,      \* git repositories by root directory: head, local, tracking, worktrees
    origin,     \* the branches of the remote repository
    originHead, \* the branch the remote's HEAD names
    cmd,        \* the command being run
    pc,         \* its position
    ops,        \* the git processes it has run so far, with their exit status
    outcome,    \* "idle", "running", "returned" or "raised"
    rc,         \* the returned exit code
    exc,        \* the exception raised
    answer,     \* what the user answered to the prompt
    emitted,    \* the "cd <path>" line was printed
    editor,     \* "none", "exit0", "exit1" or "missing": the editor launch
    envFail,    \* a git process failed although git could have succeeded
    addCalls,   \* calls of workspace_add made by the command
    addRets,    \* the values those calls returned
    listed,     \* the paths workspace_list put in its table
    fs0,        \* fs when the command started
    nCmds,      \* commands started
    configFile, \* the persisted configuration document
    configFile0, \* configFile when the command started
    loaded,     \* what load_config returned
    parsed,     \* what the parsing function called returned
    defaults,   \* the DEFAULT_CONFIG dictionary of the running process, as it is now
    writers     \* the concurrent save_config_value invocations

world == <<fs, repos, origin, originHead, configFile>>
\* what only the configuration and parsing commands write after a command's start
\* (writers: only the concurrent invocations)
aux == <<configFile0, loaded, parsed, defaults, writers>>
vars == <<fs, repos, origin, originHead, cmd, pc, ops, outcome, rc, exc, answer,
          emitted, editor, envFail, addCalls, addRets, listed, fs0, nCmds, configFile, aux>>

\* ------------------------------------------------------------------ str

StartsWith(s, p) == Len(s) >= Len(p) /\ SubSeq(s, 1, Len(p)) = p

\* sub in s
Contains(s, sub) == \E i \in 1..(Len(s) - Len(sub) + 1) : SubSeq(s, i, i + Len(sub) - 1) = sub

\* s.find(sub) as a 1-based index, 0 when absent
Find(s, sub) ==
    IF Contains(s, sub)
    THEN CHOOSE i \in 1..(Len(s) - Len(sub) + 1) :
            /\ SubSeq(s, i, i + Len(sub) - 1) = sub
            /\ \A j \in 1..(i - 1) : SubSeq(s, j, j + Len(sub) - 1) # sub
    ELSE 0

\* s.split(sep, 1)
Split1(s, sep) ==
    LET i == Find(s, sep)
    IN  IF i = 0 THEN <<s>>
        ELSE <<SubSeq(s, 1, i - 1), SubSeq(s, i + Len(sep), Len(s))>>

\* s.split(sep)
RECURSIVE Split(_, _)
Split(s, sep) ==
    LET i == Find(s, sep)
    IN  IF i = 0 THEN <<s>>
        ELSE <<SubSeq(s, 1, i - 1)>> \o Split(SubSeq(s, i + Len(sep), Len(s)), sep)

\* s.replace(old, new)
RECURSIVE Replace(_, _, _)
Replace(s, old, new) ==
    LET i == Find(s, old)
    IN  IF i = 0 THEN s
        ELSE SubSeq(s, 1, i - 1) \o new \o Replace(SubSeq(s, i + Len(old), Len(s)), old, new)

\* s.rstrip(chars): drops every trailing character that is one of chars
RECURSIVE RStrip(_, _)
RStrip(s, chars) ==
    IF s # <<>> /\ (\E k \in 1..Len(chars) : chars[k] = s[Len(s)])
    THEN RStrip(SubSeq(s, 1, Len(s) - 1), chars)
    ELSE s

RECURSIVE LStrip(_, _)
LStrip(s, chars) ==
    IF s # <<>> /\ (\E k \in 1..Len(chars) : chars[k] = s[1])
    THEN LStrip(Tail(s), chars)
    ELSE s

\* s.strip()
Strip(s) == LStrip(RStrip(s, <<" ">>), <<" ">>)

\* s.lower()
Lower(s) ==
    [i \in 1..Len(s) |->
        IF s[i] = "Y" THEN "y" ELSE IF s[i] = "E" THEN "e" ELSE IF s[i] = "S" THEN "s"
        ELSE IF s[i] = "N" THEN "n" ELSE s[i]]

\* sep.join(parts)
RECURSIVE Join(_, _)
Join(parts, sep) ==
    IF parts = <<>> THEN <<>>
    ELSE IF Len(parts) = 1 THEN parts[1]
    ELSE parts[1] \o sep \o Join(Tail(parts), sep)

\* ----------------------------------------------------------------- Path

RECURSIVE DropEmpty(_)
DropEmpty(parts) ==
    IF parts = <<>> THEN <<>>
    ELSE IF parts[1] = <<>> \/ parts[1] = <<".">> THEN DropEmpty(Tail(parts))
    ELSE <<parts[1]>> \o DropEmpty(Tail(parts))

\* Path(s).parts without the root: empty and "." segments are dropped
PathOf(s) == DropEmpty(Split(s, <<"/">>))

\* p / s for a str s: an absolute s replaces p
PathJoin(p, s) == IF StartsWith(s, <<"/">>) THEN PathOf(s) ELSE p \o PathOf(s)

\* str(p) of an absolute path
PathStr(p) == <<"/">> \o Join(p, <<"/">>)

\* p.parent
Parent(p) == IF p = <<>> THEN <<>> ELSE SubSeq(p, 1, Len(p) - 1)

\* p and every ancestor of p: what mkdir(parents=True, exist_ok=True) makes exist
WithParents(p) == {SubSeq(p, 1, n) : n \in 0..Len(p)}

\* q is p or lies below p
Under(q, p) == Len(q) >= Len(p) /\ SubSeq(q, 1, Len(p)) = p

\* ------------------------------------------------------------- literals

S_slash == <<"/">>
S_dash == <<"-">>
S_main == <<"m", "a", "i", "n">>
S_master == <<"m", "a", "s", "t", "e", "r">>
S_fx == <<"f", "/", "x">>
S_github == <<"g", "i", "t", "h", "u", "b">>
S_gitlab == <<"g", "i", "t", "l", "a", "b">>
S_y == <<"y">>
S_yes == <<"y", "e", "s">>
S_dotgit == <<".", "g", "i", "t">>

\* the repository string "a/w", a string without "/", and the https URL
T_aw == <<"a", "/", "w">>
T_w == <<"w">>
T_url == <<"h", "t", "t", "p", "s", ":", "/", "/", "g", "i", "t", "h", "u", "b", ".", "c", "o", "m", "/", "a", "/", "w", ".", "g", "i", "t">>

\* ----------------------------------------------------- cli/gitx/clone.py

_is_full_git_url(target) ==
    \/ StartsWith(target, <<"h", "t", "t", "p", "s", ":", "/", "/">>)
    \/ StartsWith(target, <<"g", "i", "t", ":", "/", "/">>)
    \/ StartsWith(target, <<"g", "i", "t", "@">>)

\* build_clone_url raises ValueError exactly when this holds
build_clone_url_raises(target, provider) ==
    /\ ~_is_full_git_url(target)
    /\ \/ ~Contains(target, S_slash)
       \/ provider # S_github

build_clone_url(target, provider) ==
    IF _is_full_git_url(target) THEN target
    ELSE LET parts == Split1(target, S_slash)
         IN  <<"h", "t", "t", "p", "s", ":", "/", "/", "g", "i", "t", "h", "u", "b", ".", "c", "o", "m", "/">> \o parts[1] \o S_slash \o parts[2] \o S_dotgit

\* build_clone_paths raises ValueError exactly when this holds
build_clone_paths_raises(target) == ~Contains(target, S_slash)

\* build_clone_paths(target, cfg) = <<repo_root, main_worktree>>
build_clone_paths(target, base_dir) ==
    LET parts == Split1(target, S_slash)
        org == parts[1]
        repo == parts[2]
    IN  <<PathJoin(PathJoin(base_dir, org), repo),
          PathJoin(PathJoin(base_dir, org), repo \o S_dash \o S_main)>>

\* ------------------------------------------ cli/gitx/workspace/paths.py

WORKSPACE_SUFFIX_SEP == S_dash

\* RepoIdentifier.parse raises ValueError exactly when this holds
RepoIdentifier_parse_raises(value) == ~Contains(value, S_slash)

RepoIdentifier_parse(value) ==
    LET parts == Split1(value, S_slash)
    IN  [org |-> parts[1], name |-> parts[2]]

branch_to_suffix(branch) == Replace(branch, S_slash, WORKSPACE_SUFFIX_SEP)

repo_root_path(repo, base_dir) == PathJoin(PathJoin(base_dir, repo.org), repo.name)

workspace_path(repo, branch, base_dir) ==
    PathJoin(PathJoin(PathJoin(base_dir, repo.org), repo.name),
             repo.name \o WORKSPACE_SUFFIX_SEP \o branch_to_suffix(branch))

\* ------------------------------------------------------- src/gitx.py

Home == << <<"h">> >>

BASE_DIR == PathJoin(PathJoin(Home, <<"s", "o", "u", "r", "c", "e", "s">>), <<"w", "o", "r", "k", "t", "r", "e", "e", "s">>)

\* parse_repo_path(repo_url), a relative path
parse_repo_path(repo_url) ==
    LET c1 == Replace(repo_url, <<"g", "i", "t", "@">>, <<"h", "t", "t", "p", "s", ":", "/", "/">>)
        c2 == Replace(c1, <<":">>, S_slash)
        cleaned == RStrip(c2, S_dotgit)
        parts == Split(Split(cleaned, <<"g", "i", "t", "h", "u", "b", ".", "c", "o", "m", "/">>)[2], S_slash)
        segs == Split(RStrip(repo_url, S_slash), S_slash)
        name == RStrip(segs[Len(segs)], S_dotgit)
    IN  IF Contains(cleaned, <<"g", "i", "t", "h", "u", "b", ".", "c", "o", "m">>) /\ Len(parts) >= 2
        THEN PathOf(parts[1]) \o PathOf(parts[2])
        ELSE PathOf(<<"u", "n", "k", "n", "o", "w", "n">>) \o PathOf(name)

\* parse_repo_path raises IndexError exactly when this holds:
\* "github.com" occurs in the cleaned url but "github.com/" does not
parse_repo_path_raises(repo_url) ==
    LET cleaned == RStrip(Replace(Replace(repo_url, <<"g", "i", "t", "@">>, <<"h", "t", "t", "p", "s", ":", "/", "/">>),
                                  <<":">>, S_slash), S_dotgit)
    IN  Contains(cleaned, <<"g", "i", "t", "h", "u", "b", ".", "c", "o", "m">>) /\ ~Contains(cleaned, <<"g", "i", "t", "h", "u", "b", ".", "c", "o", "m", "/">>)

\* worktree_path(repo_rel, branch)
worktree_path(repo_rel, branch) ==
    LET safe_branch == Replace(branch, S_slash, S_dash)
        repo_path == PathJoin(BASE_DIR, repo_rel)
    IN  PathOf(PathStr(repo_path) \o S_dash \o safe_branch)

\* Path(f"{repo_path}-main") of wt_clone
wt_main_worktree(repo_path) == PathOf(PathStr(repo_path) \o S_dash \o S_main)

\* ------------------------------------------------- cli/gitx/config.py

\* a JSON value: a string or an object (a function from keys to JSON values);
\* the config file holds one, or is absent, or holds text that is not JSON
Str(s) == [t |-> "str", v |-> s]
Dict(f) == [t |-> "dict", v |-> f]
Absent == [t |-> "absent", v |-> <<>>]
Invalid == [t |-> "invalid", v |-> <<>>]

K_globals == <<"g", "l", "o", "b", "a", "l", "s">>
K_workspaces == <<"w", "o", "r", "k", "s", "p", "a", "c", "e", "s">>
K_baseDir == <<"b", "a", "s", "e", "D", "i", "r">>
K_defaultProvider == <<"d", "e", "f", "a", "u", "l", "t", "P", "r", "o", "v", "i", "d", "e", "r">>
K_editor == <<"e", "d", "i", "t", "o", "r">>
K_defaultBranch == <<"d", "e", "f", "a", "u", "l", "t", "B", "r", "a", "n", "c", "h">>

\* d[k] = val
Put(d, k, val) == [q \in DOMAIN d \cup {k} |-> IF q = k THEN val ELSE d[q]]

\* d.update(e)
Update(d, e) == [q \in DOMAIN d \cup DOMAIN e |-> IF q \in DOMAIN e THEN e[q] ELSE d[q]]

DEFAULT_CONFIG ==
    Dict(Put(Put(<<>>, K_globals,
            Dict(Put(Put(Put(<<>>, K_baseDir, Str(<<"$", "{", "H", "O", "M", "E", "}", "/", "s", "o", "u", "r", "c", "e", "s", "/", "w", "o", "r", "k", "s", "p", "a", "c", "e", "s">>)),
                         K_defaultProvider, Str(S_github)),
                     K_editor, Str(<<"c", "o", "d", "e">>)))),
        K_workspaces, Dict(<<>>)))

\* the config file lives in $HOME/.config/gitx (XDG_CONFIG_HOME unset)
ConfigDir == PathJoin(PathJoin(Home, <<".", "c", "o", "n", "f", "i", "g">>), <<"g", "i", "t", "x">>)

\* load_raw_config raises AttributeError exactly when the file parses to a
\* JSON value without items()
load_raw_config_raises(file) == file.t \notin {"absent", "invalid", "dict"}

\* load_raw_config merging the wrong way round: the defaults' keys win over the file's
load_raw_config_defaults_win(file) ==
    IF file.t \in {"absent", "invalid"} THEN defaults.v
    ELSE [k \in DOMAIN defaults.v \cup DOMAIN file.v |->
            IF k \notin DOMAIN file.v THEN defaults.v[k]
            ELSE IF file.v[k].t = "dict" /\ k \in DOMAIN defaults.v
            THEN Dict(Update(file.v[k].v, defaults.v[k].v))
            ELSE file.v[k]]

\* load_raw_config(): a copy of DEFAULT_CONFIG as it is now, with the file's sections
\* merged in key by key
load_raw_config(file) ==
    IF file.t \in {"absent", "invalid"} THEN defaults.v
    ELSE [k \in DOMAIN defaults.v \cup DOMAIN file.v |->
            IF k \notin DOMAIN file.v THEN defaults.v[k]
            ELSE IF file.v[k].t = "dict"
            THEN LET section == IF k \in DOMAIN defaults.v THEN defaults.v[k]
                                ELSE Dict(<<>>)
                 IN  IF section.t = "dict" THEN Dict(Update(section.v, file.v[k].v))
                     ELSE section
            ELSE file.v[k]]

\* DEFAULT_CONFIG.copy() copies the top level only: under these keys the dictionary
\* load_raw_config returns holds the very section object DEFAULT_CONFIG holds
\* (a section the file gives as a non-object replaces it in the copy alone)
Aliased(file) ==
    {k \in DOMAIN defaults.v :
        ~(file.t = "dict" /\ k \in DOMAIN file.v /\ file.v[k].t # "dict")}

\* DEFAULT_CONFIG once the caller holds raw: section.update(value) and every later
\* write into an aliased section of raw went into DEFAULT_CONFIG's own section
DEFAULT_CONFIG_after(file, raw) ==
    Dict([k \in DOMAIN defaults.v |-> IF k \in Aliased(file) THEN raw[k] ELSE defaults.v[k]])

\* re.match in place of re.fullmatch: a pattern matches a prefix of the path
_is_valid_config_path_prefix(path) ==
    LET parts == Split(path, <<".">>)
    IN  \/ StartsWith(path, K_globals \o <<".">> \o K_baseDir)
        \/ StartsWith(path, K_globals \o <<".">> \o K_defaultProvider)
        \/ StartsWith(path, K_globals \o <<".">> \o K_editor)
        \/ /\ Len(parts) >= 3
           /\ parts[1] = K_workspaces
           /\ parts[2] # <<>>
           /\ StartsWith(parts[3], K_defaultBranch)

\* re.fullmatch against VALID_PATHS
_is_valid_config_path(path) ==
    LET parts == Split(path, <<".">>)
    IN  \/ path = K_globals \o <<".">> \o K_baseDir
        \/ path = K_globals \o <<".">> \o K_defaultProvider
        \/ path = K_globals \o <<".">> \o K_editor
        \/ /\ Len(parts) = 3
           /\ parts[1] = K_workspaces
           /\ parts[2] # <<>>
           /\ parts[3] = K_defaultBranch

\* the walk along parts[:-1] meets a value that is not an object
RECURSIVE SetPathRaises(_, _)
SetPathRaises(d, parts) ==
    /\ Len(parts) > 1
    /\ parts[1] \in DOMAIN d
    /\ \/ d[parts[1]].t # "dict"
       \/ SetPathRaises(d[parts[1]].v, Tail(parts))

\* the document with the leaf written, sections created on the way
RECURSIVE SetPath(_, _, _)
SetPath(d, parts, value) ==
    IF Len(parts) = 1 THEN Put(d, parts[1], Str(value))
    ELSE LET next == IF parts[1] \in DOMAIN d THEN d[parts[1]].v ELSE <<>>
         IN  Put(d, parts[1], Dict(SetPath(next, Tail(parts), value)))

\* len(json.dumps(v, indent=2)) where the text so far is nested depth levels deep:
\* a string in its quotes; {} for an empty object; otherwise "{" and a newline, the
\* items one per line, indented, as "key": value and joined by a comma and a
\* newline, then a newline, the indent and "}"
RECURSIVE JsonLen(_, _)
RECURSIVE JsonItemsLen(_, _, _)
JsonItemsLen(f, keys, depth) ==
    IF keys = {} THEN 0
    ELSE LET k == CHOOSE q \in keys : TRUE
         IN  2 * depth + (Len(k) + 2) + 2 + JsonLen(f[k], depth)
               + (IF keys \ {k} = {} THEN 0 ELSE 2)
               + JsonItemsLen(f, keys \ {k}, depth)

JsonLen(v, depth) ==
    IF v.t = "str" THEN Len(v.v) + 2
    ELSE IF DOMAIN v.v = {} THEN 2
    ELSE 2 + JsonItemsLen(v.v, DOMAIN v.v, depth + 1) + 1 + 2 * depth + 1

K_name == <<"n", "a", "m", "e">>
K_url == <<"u", "r", "l">>
K_lastBranch == <<"l", "a", "s", "t", "B", "r", "a", "n", "c", "h">>

\* the fields of the dataclasses: all of GlobalsConfig's are required, and the
\* first four of WorkspaceConfig's
GlobalsConfig == {K_baseDir, K_defaultProvider, K_editor}
WorkspaceConfig == {K_name, K_url, K_lastBranch, K_defaultBranch, <<"o", "r", "g">>,
                    <<"a", "u", "t", "h", "o", "r">>}
WorkspaceConfig_required == {K_name, K_url, K_lastBranch, K_defaultBranch}

\* cls(**kwargs) raises TypeError exactly when a required field has no key in data
_dict_to_dataclass_raises(data, required) == \E f \in required : f \notin DOMAIN data

\* _dict_to_dataclass(data, cls): the fields of cls that data has; other keys ignored
_dict_to_dataclass(data, flds) == [f \in DOMAIN data \cap flds |-> data[f]]

\* os.path.expandvars, with HOME the one variable set
_expand_env(path_str) ==
    Replace(path_str, <<"$", "{", "H", "O", "M", "E", "}">>, PathStr(Home))

\* raw.get("globals", {}), replaced by {} when it is not a dict
globals_raw(raw) ==
    IF K_globals \in DOMAIN raw /\ raw[K_globals].t = "dict" THEN raw[K_globals].v ELSE <<>>

\* parse_app_config raises TypeError exactly when this holds
parse_app_config_raises(raw) == _dict_to_dataclass_raises(globals_raw(raw), GlobalsConfig)

\* the directory parse_app_config resolves baseDir to, and creates
base_path(raw) ==
    LET g == globals_raw(raw)
        s == IF K_baseDir \in DOMAIN g THEN g[K_baseDir].v
             ELSE defaults.v[K_globals].v[K_baseDir].v
    IN  PathOf(_expand_env(s))

\* parse_app_config(raw): the AppConfig
parse_app_config(raw) ==
    LET workspaces_raw == IF K_workspaces \in DOMAIN raw /\ raw[K_workspaces].t = "dict"
                          THEN raw[K_workspaces].v ELSE <<>>
        ok == {k \in DOMAIN workspaces_raw :
                 /\ workspaces_raw[k].t = "dict"
                 /\ ~_dict_to_dataclass_raises(workspaces_raw[k].v, WorkspaceConfig_required)}
    IN  [t |-> "AppConfig",
         globals |-> [_dict_to_dataclass(globals_raw(raw), GlobalsConfig)
                         EXCEPT ![K_baseDir] = Str(PathStr(base_path(raw)))],
         workspaces |-> [k \in ok |-> _dict_to_dataclass(workspaces_raw[k].v, WorkspaceConfig)]]

\* config paths given to save_config_value
P_ws == K_workspaces \o <<".">> \o T_aw \o <<".">> \o K_defaultBranch
P_bad == K_globals \o <<".", "u", "n", "k", "n", "o", "w", "n", "K", "e", "y">>

\* a repository whose name contains a "."
T_awx == <<"a", "/", "w", ".", "x">>

\* ---------------------------------------------------------------- bounds

\* commands run one after another in one behaviour
MaxCmds == 3

\* length of the repository strings given to the parsing functions
MaxLen == 3

\* worktrees a repository has besides its root clone when it is listed
MaxWorktrees == 2

\* -------------------------------------------------------------- inputs

\* cfg.workspaces.base_dir, an existing directory
BaseDir == << <<"b">> >>

Targets == {T_aw, T_w, T_url}
\* f/x and f-x: two names that differ only in "/" against "-"
Branches == {S_main, S_fx, <<"f", "-", "x">>}
Providers == {S_github, S_gitlab}

\* what the user types at a prompt; EOF is end of input
EOF == <<"E", "O", "F">>
NoAnswer == <<"-">>
Answers == {S_y, <<"Y", " ">>, S_yes, <<"n">>, <<>>, EOF}

\* exit statuses of a failing git process
FailCodes == {1, 128}

\* the one repository that exists at the remote, and the urls it answers to
RemoteUrls == {T_url}

\* HEAD of a checkout that is on no branch
DETACHED == <<>>

\* paths outside the allow-list: globals.unknownKey, the new top-level key "top",
\* the new section "extras.k", globals.editorX, globals.editor.x and
\* workspaces.a/w.lastBranch
UnsupportedPaths ==
    {P_bad,
     <<"t", "o", "p">>,
     <<"e", "x", "t", "r", "a", "s", ".", "k">>,
     K_globals \o <<".">> \o K_editor \o <<"X">>,
     K_globals \o <<".">> \o K_editor \o <<".", "x">>,
     K_workspaces \o <<".">> \o T_aw \o <<".">> \o K_lastBranch}

\* the paths given to save_config_value: those, workspaces.<id>.defaultBranch for
\* a/w and for a/w.x, and globals.editor
ConfigPaths ==
    UnsupportedPaths
    \cup {P_ws,
          K_workspaces \o <<".">> \o T_awx \o <<".">> \o K_defaultBranch,
          K_globals \o <<".">> \o K_editor}

\* a key the program does not know
K_theme == <<"t", "h", "e", "m", "e">>

S_dev == <<"d", "e", "v">>

\* config files found on disk: none, text that is not JSON, and the JSON documents
\*   "x"                                             (not an object)
\*   {}
\*   {"future": "1", "extras": {"theme": "d"}}       (unknown key and section)
\*   {"globals": {"editor": "vim", "theme": "d"}}    (partial, with an unknown key)
\*   {"globals": "x"}                                (globals not an object)
\*   {"workspaces": {"a/w": {"name": "w", "url": ..., "lastBranch": "dev",
\*                           "defaultBranch": "dev", "theme": "d"}}}
\*   {"workspaces": {"a/w": "x"}}                    (a record not an object)
ConfigFiles ==
    {Absent,
     Invalid,
     Str(<<"x">>),
     Dict(<<>>),
     Dict(Put(Put(<<>>, <<"f", "u", "t", "u", "r", "e">>, Str(<<"1">>)),
              <<"e", "x", "t", "r", "a", "s">>, Dict(Put(<<>>, K_theme, Str(<<"d">>))))),
     Dict(Put(<<>>, K_globals, Dict(Put(Put(<<>>, K_editor, Str(<<"v", "i", "m">>)), K_theme, Str(<<"d">>))))),
     Dict(Put(<<>>, K_globals, Str(<<"x">>))),
     Dict(Put(<<>>, K_workspaces, Dict(Put(<<>>, T_aw,
        Dict(Put(Put(Put(Put(Put(<<>>, K_name, Str(T_w)), K_url, Str(T_url)), K_lastBranch, Str(S_dev)),
                     K_defaultBranch, Str(S_dev)), K_theme, Str(<<"d">>))))))),
     Dict(Put(<<>>, K_workspaces, Dict(Put(<<>>, T_aw, Str(<<"x">>)))))}

\* the shorthand and the url forms of the repository a/<name> at github.com
RepoFormsOf(name) ==
    LET id == <<"a", "/">> \o name
    IN  {id,
         <<"h", "t", "t", "p", "s", ":", "/", "/", "g", "i", "t", "h", "u", "b", ".", "c", "o", "m", "/">> \o id,
         <<"h", "t", "t", "p", "s", ":", "/", "/", "g", "i", "t", "h", "u", "b", ".", "c", "o", "m", "/">> \o id \o S_dotgit,
         <<"g", "i", "t", ":", "/", "/", "g", "i", "t", "h", "u", "b", ".", "c", "o", "m", "/">> \o id \o S_dotgit,
         <<"g", "i", "t", "@", "g", "i", "t", "h", "u", "b", ".", "c", "o", "m", ":">> \o id \o S_dotgit}

\* repository names: one that ends in a character of ".git", one that does not
RepoNames == {<<"w">>, <<"w", "t">>}

\* every string of "a", "w" and "/" up to MaxLen characters
ShortStrings == UNION {[1..n -> {"a", "w", "/"}] : n \in 0..MaxLen}

Commands ==
    [name : {"clone"}, target : Targets, branch : {S_main}, provider : Providers]
    \cup [name : {"add", "go"}, target : Targets, branch : Branches, provider : {S_github}]
    \cup [name : {"list"}, target : Targets, branch : {S_main}, provider : {S_github}]
    \cup [name : {"wt_clone"}, target : Targets, branch : {S_main}, provider : {S_github}]
    \cup [name : {"wt_add", "wt_code"}, target : {T_aw}, branch : Branches, provider : {S_github}]
    \cup [name : {"save_config_value"}, target : {P_ws, P_bad}, branch : {S_main},
           provider : {S_github}]

\* nothing returned yet
NoResult == [t |-> "none"]

\* the two invocations of the race, and their state before they start
Writers == {1, 2}
NoWriters == [w \in Writers |-> [pc |-> "idle", path |-> <<>>, value |-> <<>>, read |-> Absent, seq |-> 0]]

\* ------------------------------------------------------------ git engine

IsRepo(root) == root \in DOMAIN repos

Refs(r) == r.local \cup r.tracking

\* branch b is checked out in the root clone or in one of its worktrees
CheckedOut(r, b) ==
    \/ r.head = b
    \/ \E i \in 1..Len(r.worktrees) : r.worktrees[i].branch = b

SetRepo(root, r) == [x \in DOMAIN repos \cup {root} |-> IF x = root THEN r ELSE repos[x]]

Op(name, path, branch, st) == [op |-> name, path |-> path, branch |-> branch, st |-> st]

\* the status git exits with when it refuses the work: 1 from push ("src refspec
\* does not match any"), 128 ("fatal: ...") from the other commands
RefusalCode(name) == IF name = "push" THEN 1 ELSE 128

\* one git process: it exits 0 only if git can do the work (pre), and then has the
\* effect; it may fail although it could do the work (network, disk, signal), and
\* failing it changes nothing (a failed clone may leave its directory)
GitRun(name, path, branch, st, pre) ==
    /\ st \in {0} \cup FailCodes
    /\ st = 0 => pre
    /\ ~pre => st = RefusalCode(name)
    /\ ops' = Append(ops, Op(name, path, branch, st))
    /\ envFail' = (envFail \/ (st # 0 /\ pre))

\* git clone <url> <dest>
GitClone(url, dest, st, leftover) ==
    /\ GitRun("clone", dest, <<>>, st, url \in RemoteUrls /\ dest \notin fs)
    /\ IF st = 0
       THEN /\ fs' = fs \cup WithParents(dest)
            /\ repos' = SetRepo(dest, [head |-> originHead, local |-> {originHead},
                                       tracking |-> origin, worktrees |-> <<>>])
       ELSE /\ fs' = IF leftover THEN fs \cup WithParents(dest) ELSE fs
            /\ repos' = repos
    /\ UNCHANGED <<origin, originHead>>

\* git checkout --detach, in root
GitDetach(root, st) ==
    /\ GitRun("detach", root, <<>>, st, IsRepo(root))
    /\ repos' = IF st = 0 THEN SetRepo(root, [repos[root] EXCEPT !.head = DETACHED]) ELSE repos
    /\ UNCHANGED <<fs, origin, originHead>>

\* git worktree add <path> <branch>, in root: the branch must exist (a remote
\* tracking branch is branched from) and be checked out nowhere, the path be free
GitWorktreeAdd(root, path, branch, st) ==
    /\ GitRun("worktree add", path, branch, st,
              /\ IsRepo(root)
              /\ path \notin fs
              /\ branch \in Refs(repos[root])
              /\ ~CheckedOut(repos[root], branch))
    /\ IF st = 0
       THEN /\ fs' = fs \cup WithParents(path)
            /\ repos' = SetRepo(root, [repos[root] EXCEPT
                            !.local = @ \cup {branch},
                            !.worktrees = Append(@, [path |-> path, branch |-> branch])])
       ELSE UNCHANGED <<fs, repos>>
    /\ UNCHANGED <<origin, originHead>>

\* git fetch --all, in root
GitFetch(root, st) ==
    /\ GitRun("fetch", root, <<>>, st, IsRepo(root))
    /\ repos' = IF st = 0 THEN SetRepo(root, [repos[root] EXCEPT !.tracking = @ \cup origin])
                ELSE repos
    /\ UNCHANGED <<fs, origin, originHead>>

\* git checkout -b <branch>, in root: creates the branch and checks it out there
GitCheckoutB(root, branch, st) ==
    /\ GitRun("checkout -b", root, branch, st, IsRepo(root) /\ branch \notin repos[root].local)
    /\ repos' = IF st = 0
                THEN SetRepo(root, [repos[root] EXCEPT !.local = @ \cup {branch}, !.head = branch])
                ELSE repos
    /\ UNCHANGED <<fs, origin, originHead>>

\* git push -u origin <branch>, in root
GitPush(root, branch, st) ==
    /\ GitRun("push", root, branch, st, IsRepo(root) /\ branch \in repos[root].local)
    /\ IF st = 0
       THEN /\ origin' = origin \cup {branch}
            /\ repos' = SetRepo(root, [repos[root] EXCEPT !.tracking = @ \cup {branch}])
       ELSE UNCHANGED <<origin, repos>>
    /\ UNCHANGED <<fs, originHead>>

\* exit status of git show-ref --verify refs/heads/<branch> (where = "local") or
\* refs/remotes/origin/<branch> (where = "remote"), in root
ShowRefStatus(root, where, branch) ==
    IF ~IsRepo(root) THEN 128
    ELSE IF where = "local" /\ branch \in repos[root].local THEN 0
    ELSE IF where = "remote" /\ branch \in repos[root].tracking THEN 0
    ELSE 1

\* ------------------------------------------------------- command results

Return(code) ==
    /\ pc' = "done"
    /\ outcome' = "returned"
    /\ rc' = code
    /\ exc' = ""

Raise(e) ==
    /\ pc' = "done"
    /\ outcome' = "raised"
    /\ rc' = 0
    /\ exc' = e

Goto(l) ==
    /\ pc' = l
    /\ UNCHANGED <<outcome, rc, exc>>

Init ==
    /\ fs = WithParents(BaseDir) \cup WithParents(Home)
    /\ repos = << >>
    /\ originHead \in {S_main, S_master}
    /\ origin \in {{originHead}, {originHead, S_fx}}
    /\ cmd = [name |-> "none", target |-> <<>>, branch |-> <<>>, provider |-> <<>>]
    /\ pc = "idle"
    /\ ops = <<>>
    /\ outcome = "idle"
    /\ rc = 0
    /\ exc = ""
    /\ answer = NoAnswer
    /\ emitted = FALSE
    /\ editor = "none"
    /\ envFail = FALSE
    /\ addCalls = 0
    /\ addRets = <<>>
    /\ listed = <<>>
    /\ fs0 = fs
    /\ nCmds = 0
    /\ configFile = Absent
    /\ configFile0 = Absent
    /\ loaded = NoResult
    /\ parsed = NoResult
    /\ defaults = DEFAULT_CONFIG
    /\ writers = NoWriters

\* the caller starts command c, in a new process
Start(c) ==
    /\ pc \in {"idle", "done"}
    /\ nCmds < MaxCmds
    /\ nCmds' = nCmds + 1
    /\ cmd' = c
    /\ pc' = c.name
    /\ ops' = <<>>
    /\ outcome' = "running"
    /\ rc' = 0
    /\ exc' = ""
    /\ answer' = NoAnswer
    /\ emitted' = FALSE
    /\ editor' = "none"
    /\ envFail' = FALSE
    /\ addCalls' = 0
    /\ addRets' = <<>>
    /\ listed' = <<>>
    /\ fs0' = fs
    /\ configFile0' = configFile
    /\ loaded' = NoResult
    /\ parsed' = NoResult
    /\ defaults' = DEFAULT_CONFIG
    /\ UNCHANGED <<world, writers>>

\* the caller calls c in the process it is in: DEFAULT_CONFIG is as the calls before
\* left it
Call(c) ==
    /\ pc \in {"idle", "done"}
    /\ nCmds < MaxCmds
    /\ nCmds' = nCmds + 1
    /\ cmd' = c
    /\ pc' = c.name
    /\ ops' = <<>>
    /\ outcome' = "running"
    /\ rc' = 0
    /\ exc' = ""
    /\ answer' = NoAnswer
    /\ emitted' = FALSE
    /\ editor' = "none"
    /\ envFail' = FALSE
    /\ addCalls' = 0
    /\ addRets' = <<>>
    /\ listed' = <<>>
    /\ fs0' = fs
    /\ configFile0' = configFile
    /\ loaded' = NoResult
    /\ parsed' = NoResult
    /\ UNCHANGED <<world, defaults, writers>>

\* -------------------------------------- cli/gitx/clone.py: run_gitx_clone

clone_url == build_clone_url(cmd.target, cmd.provider)
clone_repo_root == build_clone_paths(cmd.target, BaseDir)[1]
clone_main_worktree == build_clone_paths(cmd.target, BaseDir)[2]

\* run_gitx_clone_entry cloning over a directory that exists
run_gitx_clone_entry_no_check ==
    /\ pc = "clone"
    /\ IF build_clone_url_raises(cmd.target, cmd.provider) \/ build_clone_paths_raises(cmd.target)
       THEN Raise("ValueError") /\ fs' = fs
       ELSE /\ fs' = fs \cup WithParents(Parent(clone_repo_root))
            /\ Goto("clone_git_clone")
    /\ UNCHANGED <<repos, origin, originHead, cmd, ops, answer, emitted, editor, envFail,
                   addCalls, addRets, listed, fs0, nCmds, configFile, aux>>

\* up to the first git process: url, paths, mkdir of the parent, existence check
run_gitx_clone_entry ==
    /\ pc = "clone"
    /\ IF build_clone_url_raises(cmd.target, cmd.provider) \/ build_clone_paths_raises(cmd.target)
       THEN Raise("ValueError") /\ fs' = fs
       ELSE /\ fs' = fs \cup WithParents(Parent(clone_repo_root))
            /\ IF clone_repo_root \in fs' THEN Return(1) ELSE Goto("clone_git_clone")
    /\ UNCHANGED <<repos, origin, originHead, cmd, ops, answer, emitted, editor, envFail,
                   addCalls, addRets, listed, fs0, nCmds, configFile, aux>>

run_gitx_clone_clone ==
    /\ pc = "clone_git_clone"
    /\ \E st \in {0} \cup FailCodes, leftover \in BOOLEAN :
          /\ st = 0 => leftover
          /\ GitClone(clone_url, clone_repo_root, st, leftover)
          /\ IF st # 0 THEN Return(st) ELSE Goto("clone_git_detach")
    /\ UNCHANGED <<cmd, answer, emitted, editor, addCalls, addRets, listed, fs0, nCmds, configFile, aux>>

\* run_gitx_clone_detach with the exit status of checkout --detach ignored
run_gitx_clone_detach_unchecked ==
    /\ pc = "clone_git_detach"
    /\ \E st \in {0} \cup FailCodes :
          /\ GitDetach(clone_repo_root, st)
          /\ Goto("clone_git_worktree")
    /\ UNCHANGED <<cmd, answer, emitted, editor, addCalls, addRets, listed, fs0, nCmds, configFile, aux>>

run_gitx_clone_detach ==
    /\ pc = "clone_git_detach"
    /\ \E st \in {0} \cup FailCodes :
          /\ GitDetach(clone_repo_root, st)
          /\ IF st # 0 THEN Return(st) ELSE Goto("clone_git_worktree")
    /\ UNCHANGED <<cmd, answer, emitted, editor, addCalls, addRets, listed, fs0, nCmds, configFile, aux>>

run_gitx_clone_worktree ==
    /\ pc = "clone_git_worktree"
    /\ \E st \in {0} \cup FailCodes :
          /\ GitWorktreeAdd(clone_repo_root, clone_main_worktree, S_main, st)
          /\ IF st # 0 THEN Return(st) ELSE Return(0)
    /\ UNCHANGED <<cmd, answer, emitted, editor, addCalls, addRets, listed, fs0, nCmds, configFile, aux>>

\* ------------------------------------- cli/gitx/workspace/commands.py

ws_repo == RepoIdentifier_parse(cmd.target)
ws_repo_root == repo_root_path(ws_repo, BaseDir)
ws_path == workspace_path(ws_repo, cmd.branch, BaseDir)

\* AddReturn with every failure reported as exit code 1
AddReturn_as_one(code) ==
    /\ addRets' = Append(addRets, IF code # 0 THEN 1 ELSE 0)
    /\ IF cmd.name = "go"
       THEN IF code # 0 THEN Return(1) ELSE Goto("go_emit")
       ELSE Return(IF code # 0 THEN 1 ELSE 0)

\* workspace_add returns code: to workspace_go when it made the call
AddReturn(code) ==
    /\ addRets' = Append(addRets, code)
    /\ IF cmd.name = "go"
       THEN IF code # 0 THEN Return(code) ELSE Goto("go_emit")
       ELSE Return(code)

\* _branch_exists, the second query: refs/remotes/origin/<branch>
_branch_exists_remote ==
    /\ pc = "add_showref_remote"
    /\ LET st == ShowRefStatus(ws_repo_root, "remote", cmd.branch)
       IN  /\ ops' = Append(ops, Op("show-ref remote", ws_repo_root, cmd.branch, st))
           /\ IF st = 0 THEN Goto("add_git_worktree") ELSE Goto("add_prompt")
    /\ UNCHANGED <<fs, repos, origin, originHead, cmd, answer, emitted, editor, envFail,
                   addCalls, addRets, listed, fs0, nCmds, configFile, aux>>

\* _branch_exists, the first query: refs/heads/<branch>
_branch_exists_local ==
    /\ pc = "add_showref_local"
    /\ LET st == ShowRefStatus(ws_repo_root, "local", cmd.branch)
       IN  /\ ops' = Append(ops, Op("show-ref local", ws_repo_root, cmd.branch, st))
           /\ IF st = 0 THEN Goto("add_git_worktree") ELSE Goto("add_showref_remote")
    /\ UNCHANGED <<fs, repos, origin, originHead, cmd, answer, emitted, editor, envFail,
                   addCalls, addRets, listed, fs0, nCmds, configFile, aux>>

\* workspace_add up to the first git process: parse, root check, mkdir
workspace_add_entry ==
    /\ pc = "add"
    /\ addCalls' = addCalls + 1
    /\ IF RepoIdentifier_parse_raises(cmd.target)
       THEN Raise("ValueError") /\ UNCHANGED <<fs, addRets>>
       ELSE IF ws_repo_root \notin fs
       THEN AddReturn(1) /\ fs' = fs
       ELSE /\ fs' = fs \cup WithParents(Parent(ws_path))
            /\ Goto("add_fetch")
            /\ addRets' = addRets
    /\ UNCHANGED <<repos, origin, originHead, cmd, ops, answer, emitted, editor, envFail,
                   listed, fs0, nCmds, configFile, aux>>

workspace_add_fetch ==
    /\ pc = "add_fetch"
    /\ \E st \in {0} \cup FailCodes :
          /\ GitFetch(ws_repo_root, st)
          /\ IF st # 0 THEN AddReturn(st) ELSE Goto("add_showref_local") /\ addRets' = addRets
    /\ UNCHANGED <<cmd, answer, emitted, editor, addCalls, listed, fs0, nCmds, configFile, aux>>

\* workspace_add_prompt with the default answer taken as yes
workspace_add_prompt_default_yes ==
    /\ pc = "add_prompt"
    /\ \E a \in Answers :
          /\ answer' = a
          /\ LET ans == IF a = EOF THEN <<>> ELSE Lower(Strip(a))
             IN  IF ans \notin {S_y, S_yes, <<>>}
                 THEN AddReturn(1)
                 ELSE Goto("add_git_checkout_b") /\ addRets' = addRets
    /\ UNCHANGED <<fs, repos, origin, originHead, cmd, ops, emitted, editor, envFail,
                   addCalls, listed, fs0, nCmds, configFile, aux>>

\* the prompt: input().strip().lower(), EOFError read as ""
workspace_add_prompt ==
    /\ pc = "add_prompt"
    /\ \E a \in Answers :
          /\ answer' = a
          /\ LET ans == IF a = EOF THEN <<>> ELSE Lower(Strip(a))
             IN  IF ans \notin {S_y, S_yes}
                 THEN AddReturn(1)
                 ELSE Goto("add_git_checkout_b") /\ addRets' = addRets
    /\ UNCHANGED <<fs, repos, origin, originHead, cmd, ops, emitted, editor, envFail,
                   addCalls, listed, fs0, nCmds, configFile, aux>>

workspace_add_checkout_b ==
    /\ pc = "add_git_checkout_b"
    /\ \E st \in {0} \cup FailCodes :
          /\ GitCheckoutB(ws_repo_root, cmd.branch, st)
          /\ IF st # 0 THEN AddReturn(st) ELSE Goto("add_git_push") /\ addRets' = addRets
    /\ UNCHANGED <<cmd, answer, emitted, editor, addCalls, listed, fs0, nCmds, configFile, aux>>

workspace_add_push ==
    /\ pc = "add_git_push"
    /\ \E st \in {0} \cup FailCodes :
          /\ GitPush(ws_repo_root, cmd.branch, st)
          /\ IF st # 0 THEN AddReturn(st) ELSE Goto("add_git_worktree") /\ addRets' = addRets
    /\ UNCHANGED <<cmd, answer, emitted, editor, addCalls, listed, fs0, nCmds, configFile, aux>>

workspace_add_worktree ==
    /\ pc = "add_git_worktree"
    /\ \E st \in {0} \cup FailCodes :
          /\ GitWorktreeAdd(ws_repo_root, ws_path, cmd.branch, st)
          /\ AddReturn(st)
    /\ UNCHANGED <<cmd, answer, emitted, editor, addCalls, listed, fs0, nCmds, configFile, aux>>

\* workspace_go up to its call of workspace_add
workspace_go_entry ==
    /\ pc = "go"
    /\ IF RepoIdentifier_parse_raises(cmd.target)
       THEN Raise("ValueError")
       ELSE IF ws_path \notin fs THEN Goto("add") ELSE Goto("go_emit")
    /\ UNCHANGED <<fs, repos, origin, originHead, cmd, ops, answer, emitted, editor, envFail,
                   addCalls, addRets, listed, fs0, nCmds, configFile, aux>>

\* console.print(f"cd {ws_path}")
workspace_go_emit ==
    /\ pc = "go_emit"
    /\ emitted' = TRUE
    /\ Goto("go_editor")
    /\ UNCHANGED <<fs, repos, origin, originHead, cmd, ops, answer, editor, envFail,
                   addCalls, addRets, listed, fs0, nCmds, configFile, aux>>

\* subprocess.run([editor, path]): the editor exits with some status, which is
\* ignored, or cannot be started, and subprocess.run raises FileNotFoundError
workspace_go_editor ==
    /\ pc = "go_editor"
    /\ \E e \in {"exit0", "exit1", "missing"} :
          /\ editor' = e
          /\ IF e = "missing" THEN Raise("FileNotFoundError") ELSE Return(0)
    /\ UNCHANGED <<fs, repos, origin, originHead, cmd, ops, answer, emitted, envFail,
                   addCalls, addRets, listed, fs0, nCmds, configFile, aux>>

\* stdout of git worktree list --porcelain, as lines: the root clone first, then
\* the worktrees in the order they were added
PorcelainRecord(path, branch) ==
    << <<"w", "o", "r", "k", "t", "r", "e", "e", " ">> \o PathStr(path),
       <<"H", "E", "A", "D", " ", "0">>,
       IF branch = DETACHED THEN <<"d", "e", "t", "a", "c", "h", "e", "d">> ELSE <<"b", "r", "a", "n", "c", "h", " ", "r", "e", "f", "s", "/", "h", "e", "a", "d", "s", "/">> \o branch,
       <<>> >>

RECURSIVE PorcelainOf(_)
PorcelainOf(wts) ==
    IF wts = <<>> THEN <<>>
    ELSE PorcelainRecord(wts[1].path, wts[1].branch) \o PorcelainOf(Tail(wts))

Porcelain(root) ==
    PorcelainRecord(root, repos[root].head) \o PorcelainOf(repos[root].worktrees)

\* _iter_worktrees splitting each line at every blank: line.split()[1]
RECURSIVE ParseWorktrees_split_all(_)
ParseWorktrees_split_all(lines) ==
    IF lines = <<>> THEN <<>>
    ELSE IF StartsWith(lines[1], <<"w", "o", "r", "k", "t", "r", "e", "e", " ">>)
    THEN <<Split(lines[1], <<" ">>)[2]>> \o ParseWorktrees_split_all(Tail(lines))
    ELSE ParseWorktrees_split_all(Tail(lines))

\* the paths _iter_worktrees takes from the lines of stdout
RECURSIVE ParseWorktrees(_)
ParseWorktrees(lines) ==
    IF lines = <<>> THEN <<>>
    ELSE IF StartsWith(lines[1], <<"w", "o", "r", "k", "t", "r", "e", "e", " ">>)
    THEN <<Split1(lines[1], <<" ">>)[2]>> \o ParseWorktrees(Tail(lines))
    ELSE ParseWorktrees(Tail(lines))

\* _iter_worktrees(repo_root) given the exit status of git worktree list
_iter_worktrees(root, st) == IF st # 0 THEN <<>> ELSE ParseWorktrees(Porcelain(root))

\* workspace_list_entry without the check of the repo root
workspace_list_entry_no_check ==
    /\ pc = "list"
    /\ IF RepoIdentifier_parse_raises(cmd.target)
       THEN Raise("ValueError")
       ELSE Goto("list_git")
    /\ UNCHANGED <<fs, repos, origin, originHead, cmd, ops, answer, emitted, editor, envFail,
                   addCalls, addRets, listed, fs0, nCmds, configFile, aux>>

workspace_list_entry ==
    /\ pc = "list"
    /\ IF RepoIdentifier_parse_raises(cmd.target)
       THEN Raise("ValueError")
       ELSE IF ws_repo_root \notin fs THEN Return(1) ELSE Goto("list_git")
    /\ UNCHANGED <<fs, repos, origin, originHead, cmd, ops, answer, emitted, editor, envFail,
                   addCalls, addRets, listed, fs0, nCmds, configFile, aux>>

workspace_list_git ==
    /\ pc = "list_git"
    /\ \E st \in {0} \cup FailCodes :
          /\ GitRun("worktree list", ws_repo_root, <<>>, st, IsRepo(ws_repo_root))
          /\ listed' = _iter_worktrees(ws_repo_root, st)
    /\ Return(0)
    /\ UNCHANGED <<fs, repos, origin, originHead, cmd, answer, emitted, editor,
                   addCalls, addRets, fs0, nCmds, configFile, aux>>

\* ------------------------------------------------------- src/gitx.py: wt

wt_repo_path == BASE_DIR \o parse_repo_path(cmd.target)

\* wt_clone up to the prompt or the first git process
wt_clone_entry ==
    /\ pc = "wt_clone"
    /\ IF parse_repo_path_raises(cmd.target)
       THEN Raise("IndexError") /\ fs' = fs
       ELSE IF wt_repo_path \in fs
       THEN Goto("wt_clone_prompt") /\ fs' = fs
       ELSE /\ fs' = fs \cup WithParents(Parent(wt_repo_path))
            /\ Goto("wt_clone_git_clone")
    /\ UNCHANGED <<repos, origin, originHead, cmd, ops, answer, emitted, editor, envFail,
                   addCalls, addRets, listed, fs0, nCmds, configFile, aux>>

\* the overwrite prompt: anything but "y" is sys.exit(1), "y" removes the tree;
\* end of input is an EOFError nobody catches
wt_clone_prompt ==
    /\ pc = "wt_clone_prompt"
    /\ \E a \in Answers :
          /\ answer' = a
          /\ IF a = EOF
             THEN Raise("EOFError") /\ UNCHANGED <<fs, repos>>
             ELSE IF Lower(Strip(a)) # S_y
             THEN Return(1) /\ UNCHANGED <<fs, repos>>
             ELSE /\ fs' = {q \in fs : ~Under(q, wt_repo_path)} \cup WithParents(Parent(wt_repo_path))
                  /\ repos' = [x \in {y \in DOMAIN repos : ~Under(y, wt_repo_path)} |-> repos[x]]
                  /\ Goto("wt_clone_git_clone")
    /\ UNCHANGED <<origin, originHead, cmd, ops, emitted, editor, envFail,
                   addCalls, addRets, listed, fs0, nCmds, configFile, aux>>

\* run(cmd) is subprocess.check_call: a non-zero exit raises CalledProcessError
wt_clone_clone ==
    /\ pc = "wt_clone_git_clone"
    /\ \E st \in {0} \cup FailCodes, leftover \in BOOLEAN :
          /\ st = 0 => leftover
          /\ GitClone(cmd.target, wt_repo_path, st, leftover)
          /\ IF st # 0 THEN Raise("CalledProcessError") ELSE Goto("wt_clone_git_detach")
    /\ UNCHANGED <<cmd, answer, emitted, editor, addCalls, addRets, listed, fs0, nCmds, configFile, aux>>

wt_clone_detach ==
    /\ pc = "wt_clone_git_detach"
    /\ \E st \in {0} \cup FailCodes :
          /\ GitDetach(wt_repo_path, st)
          /\ IF st # 0 THEN Raise("CalledProcessError") ELSE Goto("wt_clone_git_worktree")
    /\ UNCHANGED <<cmd, answer, emitted, editor, addCalls, addRets, listed, fs0, nCmds, configFile, aux>>

\* the last step; the script then ends, with exit status 0
wt_clone_worktree ==
    /\ pc = "wt_clone_git_worktree"
    /\ \E st \in {0} \cup FailCodes :
          /\ GitWorktreeAdd(wt_repo_path, wt_main_worktree(wt_repo_path), S_main, st)
          /\ IF st # 0 THEN Raise("CalledProcessError") ELSE Return(0)
    /\ UNCHANGED <<cmd, answer, emitted, editor, addCalls, addRets, listed, fs0, nCmds, configFile, aux>>

\* wt_add and wt_code take the repository as a path relative to BASE_DIR
wt_add_repo_path == PathJoin(BASE_DIR, cmd.target)
wt_path == worktree_path(cmd.target, cmd.branch)

\* wt_code up to its call of wt_add or the editor
wt_code_entry ==
    /\ pc = "wt_code"
    /\ IF wt_path \notin fs THEN Goto("wt_add") ELSE Goto("wt_code_editor")
    /\ UNCHANGED <<fs, repos, origin, originHead, cmd, ops, answer, emitted, editor, envFail,
                   addCalls, addRets, listed, fs0, nCmds, configFile, aux>>

\* git fetch with cwd = repo_path: a missing cwd is a FileNotFoundError
wt_add_fetch ==
    /\ pc = "wt_add"
    /\ IF wt_add_repo_path \notin fs
       THEN Raise("FileNotFoundError") /\ UNCHANGED <<fs, repos, origin, originHead, ops, envFail>>
       ELSE \E st \in {0} \cup FailCodes :
               /\ GitFetch(wt_add_repo_path, st)
               /\ IF st # 0 THEN Raise("CalledProcessError") ELSE Goto("wt_add_git_worktree")
    /\ UNCHANGED <<cmd, answer, emitted, editor, addCalls, addRets, listed, fs0, nCmds, configFile, aux>>

wt_add_worktree ==
    /\ pc = "wt_add_git_worktree"
    /\ \E st \in {0} \cup FailCodes :
          /\ GitWorktreeAdd(wt_add_repo_path, wt_path, cmd.branch, st)
          /\ IF st # 0 THEN Raise("CalledProcessError")
             ELSE IF cmd.name = "wt_code" THEN Goto("wt_code_editor") ELSE Return(0)
    /\ UNCHANGED <<cmd, answer, emitted, editor, addCalls, addRets, listed, fs0, nCmds, configFile, aux>>

\* run(["code", wt_path], cwd=wt_path), then the "cd <path>" hint
wt_code_editor ==
    /\ pc = "wt_code_editor"
    /\ \E e \in {"exit0", "exit1", "missing"} :
          /\ editor' = e
          /\ IF e = "missing" THEN Raise("FileNotFoundError") /\ emitted' = emitted
             ELSE IF e = "exit1" THEN Raise("CalledProcessError") /\ emitted' = emitted
             ELSE Return(0) /\ emitted' = TRUE
    /\ UNCHANGED <<fs, repos, origin, originHead, cmd, ops, answer, envFail,
                   addCalls, addRets, listed, fs0, nCmds, configFile, aux>>

\* -------------------------------- cli/gitx/config.py: save_config_value

\* save_config_value(path, value), with cmd.target the path and cmd.branch the value
save_config_value ==
    /\ pc = "save_config_value"
    /\ IF ~_is_valid_config_path(cmd.target)
       THEN Raise("ValueError") /\ UNCHANGED <<fs, configFile, defaults>>
       ELSE /\ fs' = fs \cup WithParents(ConfigDir)
            /\ IF load_raw_config_raises(configFile)
               THEN Raise("AttributeError") /\ UNCHANGED <<configFile, defaults>>
               ELSE LET raw == load_raw_config(configFile)
                        parts == Split(cmd.target, <<".">>)
                    IN  IF SetPathRaises(raw, parts)
                        THEN /\ Raise("ValueError")
                             /\ defaults' = DEFAULT_CONFIG_after(configFile, raw)
                             /\ UNCHANGED configFile
                        ELSE /\ configFile' = Dict(SetPath(raw, parts, cmd.branch))
                             /\ defaults' = DEFAULT_CONFIG_after(configFile,
                                                                 SetPath(raw, parts, cmd.branch))
                             /\ Return(0)
    /\ UNCHANGED <<repos, origin, originHead, cmd, ops, answer, emitted, editor, envFail,
                   addCalls, addRets, listed, fs0, nCmds, configFile0, loaded, parsed, writers>>

\* ------------------------------------ cli/gitx/config.py: load_config

\* load_config(): load_raw_config, then parse_app_config, which creates baseDir
load_config ==
    /\ pc = "load_config"
    /\ IF load_raw_config_raises(configFile)
       THEN Raise("AttributeError") /\ UNCHANGED <<fs, loaded, defaults>>
       ELSE LET raw == load_raw_config(configFile)
            IN  /\ defaults' = DEFAULT_CONFIG_after(configFile, raw)
                /\ IF parse_app_config_raises(raw)
                   THEN Raise("TypeError") /\ UNCHANGED <<fs, loaded>>
                   ELSE /\ fs' = fs \cup WithParents(base_path(raw))
                        /\ loaded' = parse_app_config(raw)
                        /\ Return(0)
    /\ UNCHANGED <<repos, origin, originHead, cmd, ops, answer, emitted, editor, envFail,
                   addCalls, addRets, listed, fs0, nCmds, configFile, configFile0, parsed,
                   writers>>

\* ------------------------------------------ the parsing functions, called

\* RepoIdentifier.parse(value), and the repo root computed from what it returns
RepoIdentifier_parse_call ==
    /\ pc = "parse"
    /\ IF RepoIdentifier_parse_raises(cmd.target)
       THEN Raise("ValueError") /\ UNCHANGED parsed
       ELSE /\ parsed' = [t |-> "RepoIdentifier",
                          org |-> RepoIdentifier_parse(cmd.target).org,
                          name |-> RepoIdentifier_parse(cmd.target).name,
                          path |-> repo_root_path(RepoIdentifier_parse(cmd.target), BaseDir)]
            /\ Return(0)
    /\ UNCHANGED <<fs, repos, origin, originHead, cmd, ops, answer, emitted, editor, envFail,
                   addCalls, addRets, listed, fs0, nCmds, configFile, configFile0, loaded,
                   defaults, writers>>

\* parse_repo_path(repo_url) of the legacy script
parse_repo_path_call ==
    /\ pc = "parse_repo_path"
    /\ IF parse_repo_path_raises(cmd.target)
       THEN Raise("IndexError") /\ UNCHANGED parsed
       ELSE /\ parsed' = [t |-> "Path", org |-> <<>>, name |-> <<>>,
                          path |-> parse_repo_path(cmd.target)]
            /\ Return(0)
    /\ UNCHANGED <<fs, repos, origin, originHead, cmd, ops, answer, emitted, editor, envFail,
                   addCalls, addRets, listed, fs0, nCmds, configFile, configFile0, loaded,
                   defaults, writers>>

\* build_clone_paths(target, cfg): org and repo as it splits them, and repo_root
build_clone_paths_call ==
    /\ pc = "build_clone_paths"
    /\ IF build_clone_paths_raises(cmd.target)
       THEN Raise("ValueError") /\ UNCHANGED parsed
       ELSE /\ parsed' = [t |-> "paths",
                          org |-> Split1(cmd.target, S_slash)[1],
                          name |-> Split1(cmd.target, S_slash)[2],
                          path |-> build_clone_paths(cmd.target, BaseDir)[1]]
            /\ Return(0)
    /\ UNCHANGED <<fs, repos, origin, originHead, cmd, ops, answer, emitted, editor, envFail,
                   addCalls, addRets, listed, fs0, nCmds, configFile, configFile0, loaded,
                   defaults, writers>>

\* ------------------- cli/gitx/config.py: save_config_value, run concurrently

\* Two invocations of save_config_value run at once, each in its own process and so
\* with its own DEFAULT_CONFIG.  The steps of one that the other can see are the
\* read of the file and the two halves of Path.write_text: open(mode="w"), which
\* truncates the file, and the write of the text at offset 0 when the file is closed.

\* the document writer w computed from the file as it read it
save_config_value_raw(w) ==
    SetPath(load_raw_config(writers[w].read), Split(writers[w].path, <<".">>), writers[w].value)

\* invocation w starts, on one of three paths of the allow-list or one outside it
save_config_value_call(w) ==
    /\ writers[w].pc = "idle"
    /\ \E path \in {P_ws, K_globals \o <<".">> \o K_editor, K_globals \o <<".">> \o K_baseDir, P_bad},
          value \in Branches :
          writers' = [writers EXCEPT ![w] = [pc |-> "load", path |-> path, value |-> value,
                                             read |-> Absent, seq |-> 0]]
    /\ UNCHANGED <<fs, repos, origin, originHead, cmd, pc, ops, outcome, rc, exc, answer, emitted,
                   editor, envFail, addCalls, addRets, listed, fs0, nCmds, configFile,
                   configFile0, loaded, parsed, defaults>>

\* lines 203-225: validation, mkdir, load_raw_config and the walk along the path
save_config_value_load(w) ==
    /\ writers[w].pc = "load"
    /\ IF ~_is_valid_config_path(writers[w].path)
       THEN /\ writers' = [writers EXCEPT ![w].pc = "raised"]
            /\ fs' = fs
       ELSE /\ fs' = fs \cup WithParents(ConfigDir)
            /\ IF \/ load_raw_config_raises(configFile)
                  \/ SetPathRaises(load_raw_config(configFile), Split(writers[w].path, <<".">>))
               THEN writers' = [writers EXCEPT ![w].pc = "raised", ![w].read = configFile]
               ELSE writers' = [writers EXCEPT ![w].pc = "open", ![w].read = configFile]
    /\ UNCHANGED <<repos, origin, originHead, cmd, pc, ops, outcome, rc, exc, answer, emitted,
                   editor, envFail, addCalls, addRets, listed, fs0, nCmds, configFile,
                   configFile0, loaded, parsed, defaults>>

\* line 227, write_text opening the file: it is empty from here on
write_text_open(w) ==
    /\ writers[w].pc = "open"
    /\ configFile' = Invalid
    /\ writers' = [writers EXCEPT ![w].pc = "write"]
    /\ UNCHANGED <<fs, repos, origin, originHead, cmd, pc, ops, outcome, rc, exc, answer, emitted,
                   editor, envFail, addCalls, addRets, listed, fs0, nCmds,
                   configFile0, loaded, parsed, defaults>>

\* line 227, write_text writing: the text goes over the start of the file, and what
\* the other writer put there since the open stays behind it where it was longer.
\* (A write finds the file empty or holding the other writer's whole text: each
\* writer writes once, after its own open.)
write_text_write(w) ==
    /\ writers[w].pc = "write"
    /\ configFile' = IF /\ configFile.t = "dict"
                        /\ JsonLen(configFile, 0) > JsonLen(Dict(save_config_value_raw(w)), 0)
                     THEN Invalid
                     ELSE Dict(save_config_value_raw(w))
    /\ writers' = [writers EXCEPT ![w].pc = "done",
                                  ![w].seq = 1 + Cardinality({x \in Writers : writers[x].seq > 0})]
    /\ UNCHANGED <<fs, repos, origin, originHead, cmd, pc, ops, outcome, rc, exc, answer, emitted,
                   editor, envFail, addCalls, addRets, listed, fs0, nCmds,
                   configFile0, loaded, parsed, defaults>>

\* ------------------------------------------------------------------ spec

Next ==
    \/ \E c \in Commands : Start(c)
    \/ run_gitx_clone_entry
    \/ run_gitx_clone_clone
    \/ run_gitx_clone_detach
    \/ run_gitx_clone_worktree
    \/ workspace_add_entry
    \/ workspace_add_fetch
    \/ _branch_exists_local
    \/ _branch_exists_remote
    \/ workspace_add_prompt
    \/ workspace_add_checkout_b
    \/ workspace_add_push
    \/ workspace_add_worktree
    \/ workspace_go_entry
    \/ workspace_go_emit
    \/ workspace_go_editor
    \/ workspace_list_entry
    \/ workspace_list_git
    \/ wt_clone_entry
    \/ wt_clone_prompt
    \/ wt_clone_clone
    \/ wt_clone_detach
    \/ wt_clone_worktree
    \/ wt_code_entry
    \/ wt_add_fetch
    \/ wt_add_worktree
    \/ wt_code_editor
    \/ save_config_value

Spec == Init /\ [][Next]_vars

\* the configuration commands alone, started on each of the config files
InitConfig ==
    /\ configFile \in ConfigFiles
    /\ configFile0 = configFile
    /\ fs = WithParents(BaseDir) \cup WithParents(Home)
                \cup (IF configFile = Absent THEN {} ELSE WithParents(ConfigDir))
    /\ repos = << >>
    /\ originHead = S_main
    /\ origin = {originHead}
    /\ cmd = [name |-> "none", target |-> <<>>, branch |-> <<>>, provider |-> <<>>]
    /\ pc = "idle"
    /\ ops = <<>>
    /\ outcome = "idle"
    /\ rc = 0
    /\ exc = ""
    /\ answer = NoAnswer
    /\ emitted = FALSE
    /\ editor = "none"
    /\ envFail = FALSE
    /\ addCalls = 0
    /\ addRets = <<>>
    /\ listed = <<>>
    /\ fs0 = fs
    /\ nCmds = 0
    /\ loaded = NoResult
    /\ parsed = NoResult
    /\ defaults = DEFAULT_CONFIG
    /\ writers = NoWriters

NextConfig ==
    \/ \E c \in [name : {"save_config_value"}, target : ConfigPaths, branch : Branches,
                 provider : {S_github}]
                \cup [name : {"load_config"}, target : {<<>>}, branch : {S_main},
                      provider : {S_github}] :
          Start(c)
    \/ save_config_value
    \/ load_config

SpecConfig == InitConfig /\ [][NextConfig]_vars

\* worktrees added to the clone of a/w by hand, anywhere on the disk, in the
\* order they were added: every sequence of up to MaxWorktrees of these
WorktreeLists ==
    LET ListedWorktrees ==
            {[path |-> << <<"z">> >>, branch |-> S_main],
             [path |-> << <<"a", " ", "y">> >>, branch |-> S_fx],
             [path |-> workspace_path(RepoIdentifier_parse(T_aw), S_dev, BaseDir),
              branch |-> S_dev]}
    IN  {w \in UNION {[1..n -> ListedWorktrees] : n \in 0..MaxWorktrees} :
            \A i, j \in 1..Len(w) : i # j => w[i] # w[j]}

\* workspace list alone, on a clone of a/w that has such worktrees
InitList ==
    /\ \E w \in WorktreeLists :
          /\ repos = [x \in {repo_root_path(RepoIdentifier_parse(T_aw), BaseDir)} |->
                            [head |-> DETACHED,
                             local |-> {w[i].branch : i \in 1..Len(w)},
                             tracking |-> {S_main}, worktrees |-> w]]
          /\ fs = WithParents(BaseDir) \cup WithParents(Home)
                    \cup WithParents(repo_root_path(RepoIdentifier_parse(T_aw), BaseDir))
                    \cup UNION {WithParents(w[i].path) : i \in 1..Len(w)}
    /\ originHead = S_main
    /\ origin = {originHead}
    /\ cmd = [name |-> "none", target |-> <<>>, branch |-> <<>>, provider |-> <<>>]
    /\ pc = "idle"
    /\ ops = <<>>
    /\ outcome = "idle"
    /\ rc = 0
    /\ exc = ""
    /\ answer = NoAnswer
    /\ emitted = FALSE
    /\ editor = "none"
    /\ envFail = FALSE
    /\ addCalls = 0
    /\ addRets = <<>>
    /\ listed = <<>>
    /\ fs0 = fs
    /\ nCmds = 0
    /\ configFile = Absent
    /\ configFile0 = Absent
    /\ loaded = NoResult
    /\ parsed = NoResult
    /\ defaults = DEFAULT_CONFIG
    /\ writers = NoWriters

NextList ==
    \/ \E c \in [name : {"list"}, target : Targets, branch : {S_main}, provider : {S_github}] :
          Start(c)
    \/ workspace_list_entry
    \/ workspace_list_git

SpecList == InitList /\ [][NextList]_vars

\* the config file is removed or overwritten with text that is not JSON by
\* something outside the process, between two calls
config_file_lost ==
    /\ pc \in {"idle", "done"}
    /\ configFile # Absent
    /\ \E f \in {Absent, Invalid} : f # configFile /\ configFile' = f
    /\ UNCHANGED <<fs, repos, origin, originHead, cmd, pc, ops, outcome, rc, exc, answer, emitted,
                   editor, envFail, addCalls, addRets, listed, fs0, nCmds, aux>>

\* load_config and save_config_value called one after another in one process
NextProcess ==
    \/ \E c \in [name : {"save_config_value"},
                 target : {P_ws, K_globals \o <<".">> \o K_editor, P_bad},
                 branch : {S_main}, provider : {S_github}]
                \cup [name : {"load_config"}, target : {<<>>}, branch : {S_main},
                      provider : {S_github}] :
          Call(c)
    \/ save_config_value
    \/ load_config
    \/ config_file_lost

SpecProcess == InitConfig /\ [][NextProcess]_vars

\* two concurrent save_config_value invocations, on each of the config files
NextRace ==
    \/ \E w \in Writers : save_config_value_call(w)
    \/ \E w \in Writers : save_config_value_load(w)
    \/ \E w \in Writers : write_text_open(w)
    \/ \E w \in Writers : write_text_write(w)

SpecRace == InitConfig /\ [][NextRace]_vars

\* the parsing functions alone, called on each repository string
NextParse ==
    \/ \E c \in [name : {"parse", "parse_repo_path", "build_clone_paths"},
                 target : UNION {RepoFormsOf(n) : n \in RepoNames} \cup ShortStrings,
                 branch : {S_main}, provider : {S_github}] :
          Start(c)
    \/ RepoIdentifier_parse_call
    \/ parse_repo_path_call
    \/ build_clone_paths_call

SpecParse == Init /\ [][NextParse]_vars

\* ------------------------------------------------------------ properties

Done == pc = "done"
Returned(code) == pc = "done" /\ outcome = "returned" /\ rc = code

OpNames == [i \in 1..Len(ops) |-> ops[i].op]

IsPrefix(a, b) == Len(a) <= Len(b) /\ a = SubSeq(b, 1, Len(a))

\* the clone command was given a target its path functions accept
CloneTargetOk ==
    \/ /\ cmd.name = "clone"
       /\ ~build_clone_url_raises(cmd.target, cmd.provider)
       /\ ~build_clone_paths_raises(cmd.target)
    \/ cmd.name = "wt_clone" /\ ~parse_repo_path_raises(cmd.target)

\* the repo root and the default-branch worktree of the clone command
CloneRoot == IF cmd.name = "clone" THEN clone_repo_root ELSE wt_repo_path
CloneMain == IF cmd.name = "clone" THEN clone_main_worktree ELSE wt_main_worktree(wt_repo_path)

\* C1: a clone started on an absent repo root runs clone, checkout --detach and
\* worktree add for main in that order, each at most once and only after the
\* one before exited 0, and ends with 0 only after all three exited 0.
C1_CloneOrder ==
    (CloneTargetOk /\ CloneRoot \notin fs0) =>
        /\ IsPrefix(OpNames, <<"clone", "detach", "worktree add">>)
        /\ \A i \in 1..(Len(ops) - 1) : ops[i].st = 0
        /\ Len(ops) >= 1 => ops[1].path = CloneRoot
        /\ Len(ops) >= 2 => ops[2].path = CloneRoot
        /\ Len(ops) >= 3 => ops[3].path = CloneMain /\ ops[3].branch = S_main
        /\ Returned(0) => Len(ops) = 3 /\ ops[3].st = 0

C1_Witness ==
    /\ cmd.name = "clone"
    /\ CloneTargetOk
    /\ CloneRoot \notin fs0
    /\ Returned(0)
    /\ OpNames = <<"clone", "detach", "worktree add">>

\* the git processes whose failure ends a workflow
MutatingOps == {"clone", "detach", "fetch", "checkout -b", "push", "worktree add"}

\* C2: in run_gitx_clone and workspace_add (called directly or by workspace_go),
\* a git process that exits with s # 0 is the last one run, the workflow has
\* returned exactly s, and no directory that existed has been removed.
C2_FailurePropagates ==
    cmd.name \in {"clone", "add", "go"} =>
        \A i \in 1..Len(ops) :
            (ops[i].op \in MutatingOps /\ ops[i].st # 0) =>
                /\ i = Len(ops)
                /\ Returned(ops[i].st)
                /\ cmd.name \in {"add", "go"} => addRets = <<ops[i].st>>
                /\ fs0 \subseteq fs

C2_Witness ==
    /\ cmd.name = "add"
    /\ OpNames = <<"fetch", "show-ref local", "show-ref remote", "checkout -b", "push">>
    /\ ops[5].st = 128
    /\ Returned(128)

\* C3: after a successful run_gitx_clone of org/name the default-branch worktree
\* is at workspace_path(org/name, "main") = base_dir/org/name/name-main, so that
\* path exists and workspace go org/name main would reuse it without running git.
C3_OneLayout ==
    (cmd.name = "clone" /\ CloneTargetOk /\ Returned(0)) =>
        /\ clone_main_worktree = workspace_path(RepoIdentifier_parse(cmd.target), S_main, BaseDir)
        /\ workspace_path(RepoIdentifier_parse(cmd.target), S_main, BaseDir) \in fs

\* the user confirmed the creation of the branch
Confirmed == answer # NoAnswer /\ answer # EOF /\ Lower(Strip(answer)) \in {S_y, S_yes}

\* C4: workspace_add for a branch that exists neither locally nor on origin, the
\* user confirming and no git process failing for a reason outside git's rules:
\* once it has returned, the branch was created and pushed, the worktree for it
\* is at the deterministic path, the result is 0 and the root clone's checkout
\* is not on the branch.
C4_CreatedBranchGetsWorktree ==
    (cmd.name \in {"add", "go"} /\ Confirmed /\ ~envFail /\ addRets # <<>>) =>
        /\ addRets = <<0>>
        /\ \E i \in 1..Len(ops) : ops[i].op = "checkout -b" /\ ops[i].st = 0
        /\ \E i \in 1..Len(ops) : ops[i].op = "push" /\ ops[i].st = 0
        /\ \E i \in 1..Len(repos[ws_repo_root].worktrees) :
              repos[ws_repo_root].worktrees[i] = [path |-> ws_path, branch |-> cmd.branch]
        /\ repos[ws_repo_root].head # cmd.branch

\* the user was asked and answered something other than y / yes, or input ended
Declined == answer # NoAnswer /\ ~Confirmed

\* C5: workspace_add (called directly or by workspace_go on a missing worktree)
\* whose prompt is answered with anything but y / yes returns 1 right after the
\* fetch and the two ref queries: no checkout -b, push or worktree add is run,
\* and no directory is created.
C5_DeclineAborts ==
    (cmd.name \in {"add", "go"} /\ Declined) =>
        /\ Returned(1)
        /\ addRets = <<1>>
        /\ OpNames = <<"fetch", "show-ref local", "show-ref remote">>
        /\ ops[1].st = 0 /\ ops[2].st # 0 /\ ops[3].st # 0
        /\ fs = fs0
        /\ ~emitted /\ editor = "none"

C5_Witness ==
    /\ cmd.name = "go"
    /\ cmd.branch = S_fx
    /\ answer = EOF
    /\ Returned(1)
    /\ Len(ops) = 3

\* the persisted document has a workspace record for id with defaultBranch = b
HasWorkspaceRecord(id, b) ==
    /\ configFile.t = "dict"
    /\ K_workspaces \in DOMAIN configFile.v
    /\ configFile.v[K_workspaces].t = "dict"
    /\ id \in DOMAIN configFile.v[K_workspaces].v
    /\ configFile.v[K_workspaces].v[id].t = "dict"
    /\ K_defaultBranch \in DOMAIN configFile.v[K_workspaces].v[id].v
    /\ configFile.v[K_workspaces].v[id].v[K_defaultBranch] = Str(b)

\* C6: after a clone workflow that ended in success (run_gitx_clone returning 0,
\* wt_clone running to its end) the persisted configuration holds a workspace
\* record for a/w, the repository cloned, with defaultBranch = "main".
C6_CloneRecordsWorkspace ==
    (cmd.name \in {"clone", "wt_clone"} /\ CloneTargetOk /\ Returned(0)) =>
        HasWorkspaceRecord(T_aw, S_main)

\* C7 as claimed: a clone invoked when the repo root exists ends with exit code 1,
\* having run no git process and leaving the directory and all below it as it was
\* (read with a target and provider the command accepts and a user who answers
\* any prompt with a line of text).
C7_ExistingRootFails ==
    (CloneTargetOk /\ CloneRoot \in fs0 /\ answer # EOF /\ Done) =>
        /\ Returned(1)
        /\ ops = <<>>
        /\ {q \in fs : Under(q, CloneRoot)} = {q \in fs0 : Under(q, CloneRoot)}

\* C7 as amended: run_gitx_clone with a supported provider does so; wt_clone
\* prompts and does so only on an answer other than y: on y it removes the
\* directory and runs the clone sequence, at end of input it stops with an
\* EOFError, having run no git process and leaving the directory as it was.
C7_ExistingRootFails_Amended ==
    (CloneTargetOk /\ CloneRoot \in fs0) =>
        /\ cmd.name = "clone" =>
              /\ ops = <<>>
              /\ {q \in fs : Under(q, CloneRoot)} = {q \in fs0 : Under(q, CloneRoot)}
              /\ Done => Returned(1)
        /\ (cmd.name = "wt_clone" /\ answer # NoAnswer /\ answer # EOF
                /\ Lower(Strip(answer)) # S_y) =>
              /\ Returned(1)
              /\ ops = <<>>
              /\ {q \in fs : Under(q, CloneRoot)} = {q \in fs0 : Under(q, CloneRoot)}
        /\ (cmd.name = "wt_clone" /\ answer = EOF) =>
              /\ Done /\ outcome = "raised" /\ exc = "EOFError"
              /\ ops = <<>>
              /\ {q \in fs : Under(q, CloneRoot)} = {q \in fs0 : Under(q, CloneRoot)}
        /\ (cmd.name = "wt_clone" /\ answer # NoAnswer /\ answer # EOF
                /\ Lower(Strip(answer)) = S_y) =>
              /\ IsPrefix(OpNames, <<"clone", "detach", "worktree add">>)
              /\ ops = <<>> =>
                    /\ pc = "wt_clone_git_clone"
                    /\ \A q \in fs0 : Under(q, CloneRoot) => q \notin fs
              /\ (ops # <<>> /\ ops[1].st # 0) =>
                    \A q \in fs0 : Under(q, CloneRoot) /\ q # CloneRoot => q \notin fs
        /\ (cmd.name = "wt_clone" /\ Done /\ outcome = "returned" /\ ops = <<>>) =>
              answer # NoAnswer

C7_Witness ==
    /\ cmd.name = "clone"
    /\ CloneTargetOk
    /\ CloneRoot \in fs0
    /\ IsRepo(CloneRoot)
    /\ Returned(1)

\* C8: workspace add and workspace list for a repository whose root directory
\* does not exist run no git process, create no directory and return 1.
C8_MissingRoot ==
    (cmd.name \in {"add", "list"} /\ ~RepoIdentifier_parse_raises(cmd.target)
        /\ ws_repo_root \notin fs0) =>
        /\ ops = <<>>
        /\ fs = fs0
        /\ listed = <<>>
        /\ Done => Returned(1)

C8_Witness ==
    /\ cmd.name = "list"
    /\ ~RepoIdentifier_parse_raises(cmd.target)
    /\ ws_repo_root \notin fs0
    /\ Returned(1)

\* C9: workspace go on an existing worktree path runs no git process and returns 0
\* with the path emitted; on a missing one it calls workspace_add exactly once
\* and, when that returns s # 0, returns s with no path emitted, no editor started.
C9_GoReusesOrDelegates ==
    (cmd.name = "go" /\ ~RepoIdentifier_parse_raises(cmd.target) /\ Done) =>
        IF ws_path \in fs0
        THEN ops = <<>> /\ addCalls = 0 /\ Returned(0) /\ emitted
        ELSE /\ addCalls = 1
             /\ (addRets # <<>> /\ addRets[1] # 0) =>
                    Returned(addRets[1]) /\ ~emitted /\ editor = "none"

\* C10: once workspace_go has launched the editor its result is 0, whether the
\* editor exits 0, exits non-zero or cannot be started.
C10_EditorNeverFails ==
    (cmd.name = "go" /\ editor # "none") => Returned(0)

\* the git processes that create or publish something
CreatingOps == {"clone", "checkout -b", "push", "worktree add"}

\* C11: a command that ends on a validation or precondition failure (a repository
\* string without "/", a repo root that does not exist, a config key outside the
\* allow-list, a branch creation the user declined) has returned 1, it has not
\* raised, and it has run no git process that creates or publishes anything.
C11_ValidationReturnsOne ==
    (/\ Done
     /\ \/ cmd.name \in {"add", "go", "list"} /\ ~Contains(cmd.target, S_slash)
        \/ /\ cmd.name \in {"add", "go", "list"}
           /\ Contains(cmd.target, S_slash)
           /\ ws_repo_root \notin fs0
        \/ cmd.name = "save_config_value" /\ cmd.target = P_bad
        \/ cmd.name \in {"add", "go"} /\ Declined) =>
        /\ Returned(1)
        /\ \A i \in 1..Len(ops) : ops[i].op \notin CreatingOps

WorkspaceIds == {T_aw, T_awx}

\* the file is absent, is not JSON, or is an object whose workspaces section, if
\* any, is an object of objects
RecordsAreObjects(file) ==
    /\ file.t \in {"absent", "invalid", "dict"}
    /\ (file.t = "dict" /\ K_workspaces \in DOMAIN file.v) =>
          /\ file.v[K_workspaces].t = "dict"
          /\ \A k \in DOMAIN file.v[K_workspaces].v : file.v[K_workspaces].v[k].t = "dict"

\* C13: save_config_value("workspaces.<id>.defaultBranch", v), for an id that
\* RepoIdentifier.parse accepts (a/w, and a/w.x whose name contains a "."), on a
\* config file that is absent or whose workspace records are objects: it
\* returns normally, and the file then holds v at workspaces[<id>].defaultBranch.
C13_AnyWorkspaceIdWritable ==
    \A id \in WorkspaceIds :
        (/\ cmd.name = "save_config_value"
         /\ cmd.target = K_workspaces \o <<".">> \o id \o <<".">> \o K_defaultBranch
         /\ ~RepoIdentifier_parse_raises(id)
         /\ RecordsAreObjects(configFile0)
         /\ Done) =>
            /\ Returned(0)
            /\ HasWorkspaceRecord(id, cmd.branch)

\* every key of the document old is a key of new: with the same value when it is
\* not an object, and as an object that preserves old's recursively when it is;
\* parts is the path of the leaf written, exempt from the comparison
RECURSIVE Preserved(_, _, _)
Preserved(old, new, parts) ==
    \A k \in DOMAIN old :
        /\ k \in DOMAIN new
        /\ IF parts # <<>> /\ Len(parts) = 1 /\ k = parts[1] THEN TRUE
           ELSE IF old[k].t = "dict"
           THEN /\ new[k].t = "dict"
                /\ Preserved(old[k].v, new[k].v,
                             IF parts # <<>> /\ k = parts[1] THEN Tail(parts) ELSE <<>>)
           ELSE new[k] = old[k]

\* C14: when the config file holds a JSON object and save_config_value returns
\* normally, the file written still has every top-level key, every section and
\* every nested key that was on disk, each with the value it had, known to the
\* program or not; the leaf written is the only one of them that may differ.
C14_MergePreserves ==
    (cmd.name = "save_config_value" /\ configFile0.t = "dict" /\ Returned(0)) =>
        /\ configFile.t = "dict"
        /\ Preserved(configFile0.v, configFile.v, Split(cmd.target, <<".">>))

C14_Witness ==
    /\ cmd.name = "save_config_value"
    /\ cmd.target = P_ws
    /\ cmd.branch = S_main
    /\ configFile0.t = "dict"
    /\ K_workspaces \in DOMAIN configFile0.v
    /\ configFile0.v[K_workspaces].v[T_aw] =
          Dict(Put(Put(Put(Put(Put(<<>>, K_name, Str(T_w)), K_url, Str(T_url)), K_lastBranch, Str(S_dev)),
                       K_defaultBranch, Str(S_dev)), K_theme, Str(<<"d">>)))
    /\ Returned(0)
    /\ configFile.v[K_workspaces].v[T_aw].v[K_defaultBranch] = Str(S_main)
    /\ configFile.v[K_workspaces].v[T_aw].v[K_theme] = Str(<<"d">>)

\* the file holds text that is not JSON, JSON that is not an object, or an object
\* whose globals section is not an object
Unusable(file) ==
    \/ file.t \in {"invalid", "str"}
    \/ file.t = "dict" /\ K_globals \in DOMAIN file.v /\ file.v[K_globals].t # "dict"

\* C15: load_config always returns an AppConfig, whatever the config file holds;
\* when the file is absent or not usable as a configuration document, the
\* globals of that AppConfig are the compiled-in defaults.
C15_LoadNeverFails ==
    (cmd.name = "load_config" /\ Done) =>
        /\ outcome = "returned"
        /\ loaded.t = "AppConfig"
        /\ (configFile0 = Absent \/ Unusable(configFile0)) =>
              loaded.globals = parse_app_config(DEFAULT_CONFIG.v).globals

\* C16: RepoIdentifier.parse maps the shorthand a/<name> and each url form of
\* that repository (https with and without .git, git://, git@host:) to org a
\* and that name, so the repo root computed from it is base_dir/a/<name> for all
\* of them; the legacy parse_repo_path maps all of them to the path a/<name>.
C16_UrlFormsAgree ==
    \A n \in RepoNames :
        (cmd.name \in {"parse", "parse_repo_path"} /\ cmd.target \in RepoFormsOf(n) /\ Done) =>
            /\ outcome = "returned"
            /\ cmd.name = "parse" =>
                  /\ parsed.org = <<"a">> /\ parsed.name = n
                  /\ parsed.path = BaseDir \o << <<"a">>, n >>
            /\ cmd.name = "parse_repo_path" => parsed.path = << <<"a">>, n >>

\* the number of "/" in s
RECURSIVE Slashes(_)
Slashes(s) == IF s = <<>> THEN 0 ELSE (IF Head(s) = "/" THEN 1 ELSE 0) + Slashes(Tail(s))

\* C17: RepoIdentifier.parse and build_clone_paths, given a shorthand string: with
\* exactly one "/" and text on both sides of it they return an org and a name
\* that are not empty and hold no "/"; any other string (no "/", "/w", "a/",
\* more than one "/") raises ValueError and yields no identifier.
C17_TwoNonEmptySegments ==
    (cmd.name \in {"parse", "build_clone_paths"} /\ cmd.target \in ShortStrings /\ Done) =>
        IF Slashes(cmd.target) = 1 /\ Head(cmd.target) # "/" /\ cmd.target[Len(cmd.target)] # "/"
        THEN /\ outcome = "returned"
             /\ parsed.org # <<>> /\ parsed.name # <<>>
             /\ Slashes(parsed.org) = 0 /\ Slashes(parsed.name) = 0
        ELSE outcome = "raised" /\ exc = "ValueError" /\ parsed.t = "none"

\* C18: workspace list on a repo root whose git worktree list succeeds puts in
\* its table the path of the root clone and then the path of each worktree, one
\* row per record of the listing, in the listing's order, each path whole
\* (blanks included), and returns 0.
C18_ListInOrder ==
    (/\ cmd.name = "list"
     /\ Contains(cmd.target, S_slash)
     /\ Done
     /\ ops # <<>>) =>
        /\ Returned(0)
        /\ ops[1].st = 0 =>
              listed = <<PathStr(ws_repo_root)>>
                          \o [i \in 1..Len(repos[ws_repo_root].worktrees) |->
                                 PathStr(repos[ws_repo_root].worktrees[i].path)]

C18_Witness ==
    /\ cmd.name = "list"
    /\ Returned(0)
    /\ listed = <<<<"/", "b", "/", "a", "/", "w">>, <<"/", "z">>, <<"/", "a", " ", "y">>>>

\* the persisted document has a workspace record for id with lastBranch = b
HasLastBranch(id, b) ==
    /\ configFile.t = "dict"
    /\ K_workspaces \in DOMAIN configFile.v
    /\ configFile.v[K_workspaces].t = "dict"
    /\ id \in DOMAIN configFile.v[K_workspaces].v
    /\ configFile.v[K_workspaces].v[id].t = "dict"
    /\ K_lastBranch \in DOMAIN configFile.v[K_workspaces].v[id].v
    /\ configFile.v[K_workspaces].v[id].v[K_lastBranch] = Str(b)

\* C19: once workspace go has returned 0 for a repository and a branch, the
\* persisted workspace record of that repository has lastBranch = that branch.
C19_GoRecordsLastBranch ==
    (cmd.name = "go" /\ Returned(0)) => HasLastBranch(cmd.target, cmd.branch)

\* C20: run_gitx_clone, once clone and checkout --detach have succeeded and no git
\* process fails for a reason outside git's rules: when main exists in the clone
\* the worktree is added for main and the result is 0; when it does not, the
\* worktree is added for the configured default branch of the repository if
\* that branch exists; when neither exists the result is 1.
C20_DefaultBranchWorktree ==
    (/\ cmd.name = "clone"
     /\ CloneTargetOk
     /\ clone_repo_root \notin fs0
     /\ ~envFail
     /\ Done
     /\ Len(ops) >= 2 /\ ops[2].st = 0) =>
        LET r == repos[clone_repo_root]
            added(b) == \E i \in 1..Len(r.worktrees) : r.worktrees[i].branch = b
        IN  IF S_main \in Refs(r)
            THEN Returned(0) /\ added(S_main)
            ELSE IF \E d \in Refs(r) : HasWorkspaceRecord(cmd.target, d)
            THEN Returned(0) /\ \E d \in Refs(r) : HasWorkspaceRecord(cmd.target, d) /\ added(d)
            ELSE Returned(1)

\* C21: a clone command started where an earlier clone left the repo root behind
\* without reaching the default-branch worktree asks whether to overwrite; on a
\* confirmation the old directory is removed and the clone sequence runs, its
\* first git process being the clone into the repo root.
C21_RetryPromptsForOverwrite ==
    (CloneTargetOk /\ CloneRoot \in fs0 /\ CloneMain \notin fs0 /\ Done) =>
        /\ answer # NoAnswer
        /\ (answer # EOF /\ Lower(Strip(answer)) = S_y) =>
              /\ ops # <<>>
              /\ ops[1].op = "clone" /\ ops[1].path = CloneRoot

\* C22: two concurrent save_config_value invocations on different allow-listed
\* paths have both written: the file is exactly the document of the one that
\* wrote last, that is the file as that one read it with its own leaf set.
C22_LastWriteWins ==
    ((\A w \in Writers : writers[w].pc = "done") /\ writers[1].path # writers[2].path) =>
        \E w \in Writers :
            /\ writers[w].seq = Cardinality(Writers)
            /\ configFile = Dict(save_config_value_raw(w))

\* no worktree of the clone at root is at path on a branch other than b
NoOtherBranchAt(root, path, b) ==
    IsRepo(root) =>
        \A i \in 1..Len(repos[root].worktrees) :
            repos[root].worktrees[i].path = path => repos[root].worktrees[i].branch = b

\* C23: the switch workflow (workspace_go, and wt_code of the legacy script) has
\* printed the worktree path for the requested branch: the worktree at that path
\* is not the worktree of another branch.
C23_GoReportsRequestedBranch ==
    /\ (cmd.name = "go" /\ emitted) => NoOtherBranchAt(ws_repo_root, ws_path, cmd.branch)
    /\ (cmd.name = "wt_code" /\ emitted) => NoOtherBranchAt(wt_add_repo_path, wt_path, cmd.branch)

\* C24: within one process DEFAULT_CONFIG stays as compiled in, and a load_config
\* that found the config file absent or not JSON has returned the AppConfig of
\* the compiled-in defaults: their globals and no workspace.
C24_DefaultsUnchanged ==
    /\ defaults = DEFAULT_CONFIG
    /\ (cmd.name = "load_config" /\ Returned(0) /\ configFile0.t \in {"absent", "invalid"}) =>
          loaded = parse_app_config(DEFAULT_CONFIG.v)

====
